---- MODULE Spec2Model ----
(***************************************************************************)
(* Verification model of the "AI Coach & Mentor" application:              *)
(*   - the serverless relay handler (netlify/functions/callGemini.js and   *)
(*     its token-validating revisions),                                    *)
(*   - the ChatInterface component in its revisions,                       *)
(*   - the sign-in / session-bridging components in their revisions.       *)
(* The three parts have disjoint state; each has its own specification.    *)
(***************************************************************************)
EXTENDS Integers, Sequences, FiniteSets, TLC

\* ---------------------------------------------------------------------
\* Bounds of the model
\* ---------------------------------------------------------------------
MaxRequests == 2      \* events handled by one relay run
MaxClicks == 2        \* accepted sends, mode switches, New Chat and Sign Out clicks
MaxFaults == 1        \* failed requests (token, relay, backend) in a chat run
StoredLen == 10       \* messages of a stored conversation
MaxAuthFaults == 2    \* failed requests and interactions in a sign-in run
MaxAccountChanges == 1 \* changes of the account list in a sign-in run

\* ---------------------------------------------------------------------
\* State
\* ---------------------------------------------------------------------
\* the relay handler
VARIABLES
    hVariant,      \* which revision of the handler is deployed
    hEnv,          \* process.env: which settings are configured
    hPc,           \* position of the running invocation
    hEvent,        \* the event being handled
    hResp,         \* the response the invocation resolved with
    hPayload,      \* the payload of the upstream call in flight / last made
    hUpstream,     \* number of calls made to the generation API for this event
    hServed        \* number of events handled so far

relayVars == <<hVariant, hEnv, hPc, hEvent, hResp, hPayload, hUpstream, hServed>>

\* the ChatInterface component and its backend
VARIABLES
    cVariant,        \* which revision of ChatInterface is running
    mode,            \* MainInterface.currentMode, the `mode` prop
    epoch,           \* instance of ChatInterface (key={currentMode} remounts it)
    messages,        \* ChatInterface state
    isLoading,       \* ChatInterface state
    input,           \* ChatInterface state
    conversationId,  \* ChatInterface state (0 is null)
    flights,         \* pending promises: async continuations and notifications
    convRows,        \* backend table `conversations` (rows of the signed-in user)
    msgRows,         \* backend table `messages`, per app_mode
    nextId,          \* next id the backend hands out
    tokenCalls,      \* acquireTokenSilent calls issued by handleSend
    posts,           \* POSTs to /.netlify/functions/callGemini, in order
    dbCalls,         \* backend requests issued
    sendLog,         \* accepted sends: the conversation and input at that moment,
                     \* and how the await before the POST (`gate`) ended
    switches,        \* mode switches made
    newChats,        \* New Chat clicks made
    faults,          \* requests that failed (token, relay, backend)
    cLast,           \* the handler or continuation that ran last (typing and
                     \* notifications aside)
    signedOutAt      \* -1 while the session lasts; after sign-out, the number
                     \* of requests that had been issued when it ended

chatVars == <<cVariant, mode, epoch, messages, isLoading, input, conversationId,
              flights, convRows, msgRows, nextId, tokenCalls, posts, dbCalls,
              sendLog, switches, newChats, faults, cLast, signedOutAt>>

\* the sign-in and session-bridging components
VARIABLES
    aVariant,        \* which revision of App / AuthenticatedApp is running
    isTeams,         \* outcome of the host SDK's app.initialize()
    inProgress,      \* useMsal().inProgress, the interaction in progress
    account,         \* useMsal().accounts[0] (0 is none; a change is a new value)
    authAttempted,   \* App's authAttempted ref / state
    nonce,           \* sessionStorage holds a raw nonce
    authError,       \* App state: authError (App of the popup revision),
                     \* error (App of the host-token revision); "" is null
    aMounted,        \* AuthenticatedApp is rendered
    aEpoch,          \* instance of AuthenticatedApp
    effAccount,      \* the account the exchange effect last ran with
    isSupabaseReady, \* AuthenticatedApp state
    supabaseError,   \* AuthenticatedApp state; "" is null
    modeSelected,    \* AuthenticatedApp state (App state in the host-token
                     \* revision); "" is null
    appMode,         \* sessionStorage item 'appMode'; "" is absent
    aFlights,        \* pending promises of the sign-in and exchange code
    exchangeCalls,   \* signInWithIdToken / setSession calls issued
    ssoCalls,        \* instance.ssoSilent calls issued
    popupCalls,      \* instance.loginPopup calls that opened a popup
    exchangeFailed,  \* some exchange call has failed
    errorShown,      \* a failed exchange was delivered to the rendered component
    retries,         \* exchange calls issued after an exchange call failed
    left,            \* the page was left (reload, redirect navigation)
    aFaults,         \* requests and interactions that failed
    acctChanges,     \* changes of the account list made by the environment
    authStatus,      \* App state of the first revision: 'initializing',
                     \* 'authenticating', 'success', 'failure' ("none" elsewhere)
    exchangeSucceeded, \* some exchange call of this page load has succeeded
    nonceUses,       \* exchange calls that were passed the raw nonce generated last
    aLast            \* the continuation that ran last

authVars == <<authStatus, exchangeSucceeded, nonceUses, aVariant, isTeams, inProgress, account, authAttempted, nonce,
              authError, aMounted, aEpoch, effAccount, isSupabaseReady,
              supabaseError, modeSelected, appMode, aFlights, exchangeCalls,
              ssoCalls, popupCalls,
              exchangeFailed, errorShown,
              retries, left, aFaults, acctChanges, aLast>>

\* what an action of one part leaves alone
outsideRelay == <<chatVars, authVars>>
outsideChat == <<relayVars, authVars>>
outsideAuth == <<relayVars, chatVars>>


\* ---------------------------------------------------------------------
\* Generic helpers
\* ---------------------------------------------------------------------
Last(s) == s[Len(s)]

\* A text is a sequence of pieces (template-literal concatenation); a text
\* contains a piece when that piece occurs in it.
Contains(text, piece) == \E i \in 1..Len(text) : text[i] = piece

\* sub, not empty, occurs in text as a run of consecutive pieces
ContainsText(text, sub) ==
    /\ sub # <<>>
    /\ \E i \in 0..(Len(text) - Len(sub)) : SubSeq(text, i + 1, i + Len(sub)) = sub

\* =====================================================================
\* PART 1 - the relay handler
\* =====================================================================
\* "open" and "nodeFetch" are the two revisions without a token check; the
\* second one imports node-fetch instead of using the runtime's fetch.
HandlerVariants == {"open", "nodeFetch", "azure", "supabase"}
ValidatingVariants == {"azure", "supabase"}

\* --- bodies -----------------------------------------------------------
\* A body is either plain text or the JSON serialisation of an object with
\* one field.
TextBody(t) == [fmt |-> "text", key |-> "", val |-> t]
JsonBody(k, t) == [fmt |-> "json", key |-> k, val |-> t]
NoBody == [fmt |-> "none", key |-> "", val |-> <<>>]
NoResp == [statusCode |-> 0, body |-> NoBody]
Response(code, body) == [statusCode |-> code, body |-> body]

\* --- events -----------------------------------------------------------
\* event.headers.authorization: absent, or a scheme prefix and the rest
NoAuth == [prefix |-> "", token |-> "none"]
AuthHeaders ==
    { NoAuth,
      [prefix |-> "Basic ",  token |-> "valid"],
      [prefix |-> "Bearer ", token |-> "valid"],
      [prefix |-> "Bearer ", token |-> "forged"],
      [prefix |-> "Bearer ", token |-> "unknownKid"] }

Roles == {"user", "assistant", "system"}
Msg(r, c) == [role |-> r, content |-> c]
SampleHistories ==
    { <<>>,
      << Msg("user", <<"hi">>) >>,
      << Msg("assistant", <<"welcome">>), Msg("user", <<"hi">>) >>,
      << Msg("system", <<"sys">>), Msg("assistant", <<"a">>) >> }

\* event.body: a JSON text {history, systemPrompt}, a JSON text without
\* a history array, or a text that is not JSON
EventBodies ==
    { [fmt |-> "json", hasHistory |-> TRUE, history |-> h, systemPrompt |-> "P"] : h \in SampleHistories }
    \cup { [fmt |-> "json", hasHistory |-> FALSE, history |-> <<>>, systemPrompt |-> "P"],
           [fmt |-> "text", hasHistory |-> FALSE, history |-> <<>>, systemPrompt |-> ""] }

Events ==
    [ httpMethod : {"POST", "GET"}, auth : AuthHeaders, body : EventBodies ]

NoEvent == [ httpMethod |-> "", auth |-> NoAuth,
             body |-> [fmt |-> "text", hasHistory |-> FALSE, history |-> <<>>, systemPrompt |-> ""] ]

NoPayload == [contents |-> <<>>, systemInstruction |-> ""]

\* --- the token check --------------------------------------------------
\* Outcome of `await validateToken(token)`:
\*   "ok"       the promise resolved,
\*   "rejected" it rejected or threw (caught by the inner try),
\*   "lost"     the promise never settles.
\* azure: getKey dereferences `key` without looking at `err`; when the
\* signing key cannot be found, `key` is undefined and the TypeError is
\* thrown inside the JWKS client's callback, outside the promise, so neither
\* resolve nor reject is ever called.
validateToken(variant, env, token) ==
    IF ~env.authEnv THEN "rejected"
    ELSE IF variant = "azure" /\ token = "unknownKid" THEN "lost"
    ELSE IF token = "valid" THEN "ok"
    ELSE "rejected"

validateErrorText(env, token) ==
    IF ~env.authEnv THEN "auth environment variables not set"
    ELSE IF token = "forged" THEN "invalid signature"
    ELSE "jwt malformed"

\* authHeader && authHeader.startsWith('Bearer ')
HasBearer(auth) == auth # NoAuth /\ auth.prefix = "Bearer "

\* --- building the upstream call ----------------------------------------
\* (mutant) the role of a history message is passed on unchanged
Contents_RoleKept(history) ==
    [ i \in 1..Len(history) |->
        [ role |-> history[i].role, text |-> history[i].content ] ]

\* history.map(msg => ({role: msg.role === 'assistant' ? 'model' : 'user',
\*                      parts: [{text: msg.content}]}))
Contents(history) ==
    [ i \in 1..Len(history) |->
        [ role |-> IF history[i].role = "assistant" THEN "model" ELSE "user",
          text |-> history[i].content ] ]

KeyMissingText(variant) ==
    IF variant = "open" THEN "API key is not configured."
    ELSE "Gemini API key is not configured on the server."

ErrorResponse(code, text) == Response(code, JsonBody("error", text))

\* (mutant) the handler does not look at the key before building the call
ParseAndBuild_KeyNotChecked(variant, env, ev) ==
    IF ev.body.fmt # "json"
    THEN [call |-> FALSE, payload |-> NoPayload,
          resp |-> ErrorResponse(500, <<"Unexpected token in JSON">>)]
    ELSE IF ~ev.body.hasHistory
    THEN [call |-> FALSE, payload |-> NoPayload,
          resp |-> ErrorResponse(500, <<"Cannot read properties of undefined (reading 'map')">>)]
    ELSE [call |-> TRUE, resp |-> NoResp,
          payload |-> [contents |-> Contents(ev.body.history),
                       systemInstruction |-> ev.body.systemPrompt]]

\* The handler from JSON.parse(event.body) up to the fetch: either an error
\* response produced by the outer catch, or the payload to send upstream.
ParseAndBuild(variant, env, ev) ==
    IF ev.body.fmt # "json"
    THEN [call |-> FALSE, payload |-> NoPayload,
          resp |-> ErrorResponse(500, <<"Unexpected token in JSON">>)]
    ELSE IF ~env.apiKey
    THEN [call |-> FALSE, payload |-> NoPayload,
          resp |-> ErrorResponse(500, <<KeyMissingText(variant)>>)]
    ELSE IF ~ev.body.hasHistory
    THEN [call |-> FALSE, payload |-> NoPayload,
          resp |-> ErrorResponse(500, <<"Cannot read properties of undefined (reading 'map')">>)]
    ELSE [call |-> TRUE, resp |-> NoResp,
          payload |-> [contents |-> Contents(ev.body.history),
                       systemInstruction |-> ev.body.systemPrompt]]

\* process.env.GEMINI_API_KEY, when configured
ApiKey == "<GEMINI_API_KEY>"

\* `https://generativelanguage.googleapis.com/...:generateContent?key=${apiKey}`
apiUrl == << "https://generativelanguage.googleapis.com/generateContent?key=", ApiKey >>

\* What the generation API does with a call; the text of a rejection is the
\* system's reason
UpstreamOutcomes ==
    { [kind |-> "reject",  status |-> 0,   text |-> "getaddrinfo ENOTFOUND"],
      [kind |-> "http",    status |-> 429, text |-> "quota exceeded"],
      [kind |-> "http",    status |-> 500, text |-> "internal"],
      [kind |-> "badjson", status |-> 200, text |-> ""],
      [kind |-> "ok",      status |-> 200, text |-> "reply"],
      [kind |-> "ok",      status |-> 200, text |-> ""] }

FallbackText == "Sorry, I couldn't get a response."
FallbackTextNodeFetch == "Sorry, I couldn't get a response at the moment."
Fallback(variant) == IF variant = "nodeFetch" THEN FallbackTextNodeFetch ELSE FallbackText

\* error.message of what `await fetch(apiUrl, ...)` rejects with: the
\* runtime's fetch rejects with TypeError("fetch failed"); node-fetch
\* rejects with FetchError(`request to ${request.url} failed, reason: ...`)
RejectMessage(variant, out) ==
    IF variant = "nodeFetch"
    THEN << "request to " >> \o apiUrl \o << " failed, reason: ", out.text >>
    ELSE << "fetch failed" >>

\* error.message of what `await response.json()` rejects with: a
\* SyntaxError from the runtime's fetch; from node-fetch
\* FetchError(`invalid json response body at ${this.url} reason: ...`)
BadJsonMessage(variant) ==
    IF variant = "nodeFetch"
    THEN << "invalid json response body at " >> \o apiUrl
            \o << " reason: Unexpected end of JSON input" >>
    ELSE << "Unexpected end of JSON input" >>

\* (mutant) the upstream error text is passed through as the body itself
UpstreamResponse_RawErrorBody(variant, out) ==
    CASE out.kind = "reject"  -> ErrorResponse(500, RejectMessage(variant, out))
      [] out.kind = "http"    -> Response(out.status, TextBody(<<out.text>>))
      [] out.kind = "badjson" -> ErrorResponse(500, BadJsonMessage(variant))
      [] OTHER -> Response(200, JsonBody("response",
                      << IF out.text = "" THEN Fallback(variant) ELSE out.text >>))

\* The handler after `await fetch(apiUrl, ...)`
UpstreamResponse(variant, out) ==
    CASE out.kind = "reject"  -> ErrorResponse(500, RejectMessage(variant, out))
      [] out.kind = "http"    -> ErrorResponse(out.status, <<"API request failed: ", out.text>>)
      [] out.kind = "badjson" -> ErrorResponse(500, BadJsonMessage(variant))
      [] OTHER -> Response(200, JsonBody("response",
                      << IF out.text = "" THEN Fallback(variant) ELSE out.text >>))

MethodNotAllowed == Response(405, TextBody(<<"Method Not Allowed">>))
NoTokenProvided == ErrorResponse(401, <<"Unauthorized: No token provided.">>)

\* --- actions ----------------------------------------------------------
RelayInit ==
    /\ hVariant \in HandlerVariants
    /\ hEnv \in [apiKey : BOOLEAN, authEnv : BOOLEAN]
    /\ hPc = "idle"
    /\ hEvent = NoEvent
    /\ hResp = NoResp
    /\ hPayload = NoPayload
    /\ hUpstream = 0
    /\ hServed = 0

\* Continue with JSON.parse ... fetch
StartUpstream(ev) ==
    LET r == ParseAndBuild(hVariant, hEnv, ev) IN
    /\ hPayload' = r.payload
    /\ hResp' = r.resp
    /\ hUpstream' = IF r.call THEN 1 ELSE 0
    /\ hPc' = IF r.call THEN "fetching" ELSE "done"

\* handler(event): from entry to the first await or return
Receive(ev) ==
    /\ UNCHANGED outsideRelay
    /\ hPc \in {"idle", "done", "lost"}
    /\ hServed < MaxRequests
    /\ hServed' = hServed + 1
    /\ hEvent' = ev
    /\ UNCHANGED <<hVariant, hEnv>>
    /\ IF ev.httpMethod # "POST"
       THEN /\ hResp' = MethodNotAllowed
            /\ hPc' = "done"
            /\ hUpstream' = 0
            /\ hPayload' = NoPayload
       ELSE IF hVariant \in ValidatingVariants
       THEN IF ~HasBearer(ev.auth)
            THEN /\ hResp' = NoTokenProvided
                 /\ hPc' = "done"
                 /\ hUpstream' = 0
                 /\ hPayload' = NoPayload
            ELSE /\ hResp' = NoResp
                 /\ hPc' = "validating"
                 /\ hUpstream' = 0
                 /\ hPayload' = NoPayload
       ELSE StartUpstream(ev)

\* the continuation after `await validateToken(token)`
ValidateDone ==
    /\ UNCHANGED outsideRelay
    /\ hPc = "validating"
    /\ UNCHANGED <<hVariant, hEnv, hEvent, hServed>>
    /\ LET v == validateToken(hVariant, hEnv, hEvent.auth.token) IN
       CASE v = "ok" -> StartUpstream(hEvent)
         [] v = "rejected" ->
              /\ hResp' = ErrorResponse(401,
                    <<"Unauthorized: ", validateErrorText(hEnv, hEvent.auth.token)>>)
              /\ hPc' = "done"
              /\ UNCHANGED <<hUpstream, hPayload>>
         [] OTHER ->
              /\ hPc' = "lost"
              /\ UNCHANGED <<hResp, hUpstream, hPayload>>

\* the continuation after `await fetch(apiUrl, ...)`
UpstreamReply(out) ==
    /\ UNCHANGED outsideRelay
    /\ hPc = "fetching"
    /\ hResp' = UpstreamResponse(hVariant, out)
    /\ hPc' = "done"
    /\ UNCHANGED <<hVariant, hEnv, hEvent, hPayload, hUpstream, hServed>>

RelayNext ==
    \/ \E ev \in Events : Receive(ev)
    \/ ValidateDone
    \/ \E out \in UpstreamOutcomes : UpstreamReply(out)

\* the handler is not deployed in this run
RelayIdle ==
    /\ hVariant = "open"
    /\ hEnv = [apiKey |-> TRUE, authEnv |-> TRUE]
    /\ hPc = "idle"
    /\ hEvent = NoEvent
    /\ hResp = NoResp
    /\ hPayload = NoPayload
    /\ hUpstream = 0
    /\ hServed = 0

\* =====================================================================
\* PART 2 - the ChatInterface component and the conversation relay
\* =====================================================================
Modes == {"mentor", "coach"}

\* "stub"      handleSend only logs               (App.jsx:182, part_005:128)
\* "status"    token + POST, error shows status   (App.jsx:481)
\* "body"      token + POST, error shows err.error (part_003:189, part_004:192)
\* "realtime"  messages table + notifications     (part_002:103)
\* "persisted" conversations table                (part_006:723)
ChatVariants == {"stub", "status", "body", "realtime", "persisted"}
TokenVariants == {"status", "body"}

\* --- input ------------------------------------------------------------
Whitespace == {" ", "\t"}
Inputs == { <<>>, <<" ", "\t">>, <<" ", "h">> }

RECURSIVE TrimStart(_)
TrimStart(s) ==
    IF s = <<>> THEN s
    ELSE IF Head(s) \in Whitespace THEN TrimStart(Tail(s)) ELSE s

RECURSIVE TrimEnd(_)
TrimEnd(s) ==
    IF s = <<>> THEN s
    ELSE IF Last(s) \in Whitespace THEN TrimEnd(SubSeq(s, 1, Len(s) - 1)) ELSE s

\* (mutant) the guard compares the raw input
Trim_Identity(s) == s

\* String.prototype.trim
Trim(s) == TrimEnd(TrimStart(s))

\* the value of `input` after setInput(undefined)
Undefined == << "undefined" >>

\* --- messages ---------------------------------------------------------
\* setMessages(prev => [...prev, m]) and [...messages, m]
Appended_DropsEarlier(prev, m) == << m >>
Appended(prev, m) == Append(prev, m)

\* the fixed welcome message of a mode
Welcome(m) == Msg("assistant", <<"Hello! I'm your AI ", m>>)

\* a conversation held by the backend from an earlier visit
StoredHistory(m) ==
    [ i \in 1..StoredLen |->
        IF i = 1 THEN Welcome(m)
        ELSE IF i % 2 = 0 THEN Msg("user", <<"q", ToString(i)>>)
        ELSE Msg("assistant", <<"stored reply", ToString(i)>>) ]

SystemPrompt(m) == IF m = "coach" THEN "You are an AI Coach" ELSE "You are an AI Mentor"

HistoryWindow == 10
\* Array.prototype.slice(-n)
SliceLast(s, n) == IF Len(s) <= n THEN s ELSE SubSeq(s, Len(s) - n + 1, Len(s))

\* --- pending promises ----------------------------------------------------
Flight(k, ep, m, h, cid, sn, r) ==
    [kind |-> k, epoch |-> ep, mode |-> m, hist |-> h, convId |-> cid, send |-> sn, row |-> r]
NoRow == Msg("", <<>>)

Remove(seq, i) == SubSeq(seq, 1, i - 1) \o SubSeq(seq, i + 1, Len(seq))

\* --- backend ------------------------------------------------------------
ConvRow(id, m, msgs) == [id |-> id, mode |-> m, messages |-> msgs]

\* .eq('mode', mode).order('updated_at', {ascending: false}).limit(1)
RowsOf(rows, m) == SelectSeq(rows, LAMBDA r : r.mode = m)
LatestOf(rows, m) == Last(RowsOf(rows, m))

InitialConvRows ==
    { <<>>, << ConvRow(1, "coach", StoredHistory("coach")) >> }

\* the `messages` table at start: a stored history for coach, none for mentor
InitialMsgRows ==
    [m \in Modes |-> IF m = "coach" THEN StoredHistory("coach") ELSE <<>>]

\* what the browser can get back from the relay: the handler's responses,
\* or a failed fetch ("net")
RelayReplies ==
    { [net |-> TRUE,  resp |-> UpstreamResponse("supabase", [kind |-> "ok", status |-> 200, text |-> "reply"])],
      [net |-> TRUE,  resp |-> UpstreamResponse("supabase", [kind |-> "http", status |-> 429, text |-> "quota exceeded"])],
      [net |-> FALSE, resp |-> NoResp] }

Event(op, ok, status, text) == [op |-> op, ok |-> ok, status |-> status, text |-> text]

\* --- mounting ChatInterface ---------------------------------------------
\* state after the first render and its effects
MountMessages(v, m) ==
    CASE v = "status" -> << Welcome(m) >>      \* useState(() => getInitialMessage(mode))
      [] v = "body"   -> << Welcome(m) >>      \* effect: setMessages([welcomeMessage])
      [] OTHER -> <<>>

MountLoading(v) == v = "persisted"             \* useState(true)

\* effects that start a request at mount
MountFlights(v, m, ep) ==
    IF v \in {"realtime", "persisted"}
    THEN << Flight("load", ep, m, <<>>, 0, 0, NoRow) >>
    ELSE <<>>

ChatInit ==
    /\ cVariant \in ChatVariants
    /\ mode \in Modes
    /\ epoch = 1
    /\ messages = MountMessages(cVariant, mode)
    /\ isLoading = MountLoading(cVariant)
    /\ input = <<>>
    /\ conversationId = 0
    /\ flights = MountFlights(cVariant, mode, 1)
    /\ convRows \in (IF cVariant = "persisted" THEN InitialConvRows ELSE {<<>>})
    /\ msgRows = IF cVariant = "realtime" THEN InitialMsgRows ELSE [m \in Modes |-> <<>>]
    /\ nextId = 2
    /\ tokenCalls = 0
    /\ posts = <<>>
    /\ dbCalls = Len(MountFlights(cVariant, mode, 1))
    /\ sendLog = <<>>
    /\ switches = 0
    /\ newChats = 0
    /\ faults = 0
    /\ cLast = Event("mount", TRUE, 0, <<>>)
    /\ signedOutAt = -1

\* --- texts shown to the user ---------------------------------------------
\* the message of the Error thrown when `!response.ok`
RelayErrorText(v, resp) ==
    CASE v = "status"   -> <<"API call failed with status: ", ToString(resp.statusCode)>>
      [] v = "realtime" -> <<"Server function failed with status ", ToString(resp.statusCode)>>
      [] OTHER ->       \* const err = await response.json(); err.error || '...'
            IF resp.body.fmt # "json" THEN <<"Unexpected token in JSON">>
            ELSE IF resp.body.key = "error" /\ resp.body.val # <<>> THEN resp.body.val
            ELSE <<"Failed to get a response from the server.">>

\* the message appended (or inserted) by the catch block
ErrorMessage(v, text) ==
    IF v = "realtime"
    THEN Msg("assistant", <<"Error: ">> \o text \o <<". Please try again.">>)
    ELSE Msg("assistant", <<"Sorry, there was an error: ">> \o text)

\* (mutant) the reply keeps the role name of the generation API
ReplyMessage_ModelRole(resp) == Msg("model", resp.body.val)

\* { role: 'assistant', content: data.response }
ReplyMessage(resp) == Msg("assistant", resp.body.val)

\* (mutant) the POST carries the conversation without the new user message
PostBody_WithoutUserMessage(v, f) ==
    [ history |-> SubSeq(f.hist, 1, Len(f.hist) - 1),
      systemPrompt |-> SystemPrompt(f.mode), send |-> f.send ]

\* body of the POST to the relay, built from the closure of handleSend
PostBody(v, f) ==
    [ history |-> IF v = "realtime" THEN SliceLast(Append(f.hist, f.row), HistoryWindow)
                  ELSE f.hist,
      systemPrompt |-> SystemPrompt(f.mode), send |-> f.send ]

\* part_006:873-874: onChange stores e.value, which is undefined, and the
\* next render with isLoading false evaluates `!input.trim()`: the render
\* throws and React unmounts the tree.
Crashed == input = Undefined /\ ~isLoading

\* part_006:619-647: onAuthStateChange has set the session to null and App
\* renders Auth instead of AuthenticatedApp
SignedOut == signedOutAt # -1

\* a state update of a flight reaches the component it was started by
Mounted(f) == f.epoch = epoch /\ ~Crashed /\ ~SignedOut

\* accepted sends, mode switches, New Chat clicks and the sign-out made so far
Clicks ==
    Len(sendLog) + switches + newChats
    + (IF SignedOut \/ \E k \in 1..Len(flights) : flights[k].kind = "signOut"
       THEN 1 ELSE 0)

\* --- user actions ---------------------------------------------------------
\* onChange of the input box
TypeInput(txt) ==
    /\ UNCHANGED outsideChat
    /\ UNCHANGED signedOutAt
    /\ ~Crashed
    /\ ~SignedOut
    /\ ~isLoading                     \* the input box is `disabled={isLoading}`
    /\ input' = IF cVariant = "persisted" THEN Undefined ELSE txt
    /\ UNCHANGED <<cLast, cVariant, faults, mode, epoch, messages, isLoading, conversationId, flights,
                   convRows, msgRows, nextId, tokenCalls, posts, dbCalls, sendLog,
                   switches, newChats>>

\* (mutant) handleSend does not mark the interface as loading
LoadingAfterSend_NotSet == FALSE

\* setIsLoading(true) in handleSend, before its first await
LoadingAfterSend == TRUE

\* handleSend, up to its first await.  It is called by Enter in the input
\* box or by the send button; both are `disabled` while isLoading, and the
\* handler itself returns at once when it is called in that state.
HandleSend ==
    /\ UNCHANGED outsideChat
    /\ UNCHANGED signedOutAt
    /\ ~Crashed
    /\ ~SignedOut
    /\ UNCHANGED <<cVariant, faults, mode, epoch, conversationId, convRows, msgRows, nextId,
                   switches, newChats>>
    /\ IF \/ input = Undefined        \* input.trim() throws a TypeError
          \/ Trim(input) = <<>>
          \/ (cVariant # "stub" /\ isLoading)
       THEN /\ cLast' = Event("handleSend", FALSE, 0, <<>>)
            /\ UNCHANGED <<messages, isLoading, input, flights, tokenCalls, posts,
                           dbCalls, sendLog>>
       ELSE
         LET userMessage == Msg("user", input)
             newMessages == Appended(messages, userMessage)
             sn == Len(sendLog) + 1
         IN
         /\ Clicks < MaxClicks
         /\ cLast' = Event("handleSend", TRUE, 0, <<>>)
         /\ input' = <<>>
         /\ CASE cVariant = "stub" ->
                   UNCHANGED <<messages, isLoading, flights, tokenCalls, posts, dbCalls, sendLog>>
              [] cVariant \in TokenVariants ->
                   /\ messages' = newMessages
                   /\ isLoading' = LoadingAfterSend
                   /\ tokenCalls' = tokenCalls + 1
                   /\ flights' = Append(flights,
                          Flight("token", epoch, mode, newMessages, 0, sn, NoRow))
                   /\ sendLog' = Append(sendLog,
                          [before |-> messages, msg |-> userMessage, mode |-> mode,
                           gate |-> "pending"])
                   /\ UNCHANGED <<posts, dbCalls>>
              [] cVariant = "realtime" ->
                   /\ isLoading' = LoadingAfterSend
                   /\ dbCalls' = dbCalls + 1
                   /\ flights' = Append(flights,
                          Flight("insertUser", epoch, mode, messages, 0, sn, userMessage))
                   /\ sendLog' = Append(sendLog,
                          [before |-> messages, msg |-> userMessage, mode |-> mode,
                           gate |-> "pending"])
                   /\ UNCHANGED <<messages, tokenCalls, posts>>
              [] OTHER ->   \* persisted
                   LET f == Flight("post", epoch, mode, newMessages, conversationId, sn, NoRow) IN
                   /\ messages' = newMessages
                   /\ isLoading' = LoadingAfterSend
                   /\ posts' = Append(posts, PostBody(cVariant, f))
                   /\ flights' = Append(flights, f)
                   /\ sendLog' = Append(sendLog,
                          [before |-> messages, msg |-> userMessage, mode |-> mode,
                           gate |-> "ok"])
                   /\ UNCHANGED <<tokenCalls, dbCalls>>

\* continuation after `await instance.acquireTokenSilent(...)`
TokenDone(i, ok) ==
    LET f == flights[i] IN
    /\ f.kind = "token"
    /\ UNCHANGED outsideChat
    /\ UNCHANGED signedOutAt
    /\ ok \/ faults < MaxFaults
    /\ faults' = IF ok THEN faults ELSE faults + 1
    /\ cLast' = Event("tokenDone", ok, 0, <<>>)
    /\ sendLog' = [sendLog EXCEPT ![f.send].gate = IF ok THEN "ok" ELSE "failed"]
    /\ UNCHANGED <<cVariant, mode, epoch, input, conversationId, convRows, msgRows, nextId,
                   tokenCalls, dbCalls, switches, newChats>>
    /\ IF ok
       THEN /\ posts' = Append(posts, PostBody(cVariant, f))
            /\ flights' = [flights EXCEPT ![i].kind = "post"]
            /\ UNCHANGED <<messages, isLoading>>
       ELSE /\ flights' = Remove(flights, i)
            /\ posts' = posts
            /\ IF Mounted(f)
               THEN /\ messages' = Appended(messages,
                            ErrorMessage(cVariant, <<"interaction_required">>))
                    /\ isLoading' = FALSE
               ELSE UNCHANGED <<messages, isLoading>>

\* response.ok
IsOk(r) == r.net /\ r.resp.statusCode >= 200 /\ r.resp.statusCode < 300

\* what the catch block reports for a reply that is not ok
FailureText(v, r) == IF r.net THEN RelayErrorText(v, r.resp) ELSE <<"Failed to fetch">>

\* rows of the `messages` table after an insert, and the realtime
\* notification for the mounted component subscribed to that mode
InsertRow(m, row) == [msgRows EXCEPT ![m] = Append(@, row)]
Notification(m, row) ==
    IF m = mode THEN << Flight("notify", epoch, m, <<>>, 0, 0, row) >> ELSE <<>>

\* the effect [mode, session.user.id, startNewConversation] runs again when
\* conversationId (a dependency of startNewConversation) has changed
Reload(cid) ==
    IF cid # conversationId
    THEN << Flight("load", epoch, mode, <<>>, cid, 0, NoRow) >>
    ELSE <<>>

\* continuation after `await fetch('/.netlify/functions/callGemini', ...)`
RelayReply(i, r) ==
    LET f == flights[i] IN
    /\ f.kind = "post"
    /\ UNCHANGED outsideChat
    /\ UNCHANGED signedOutAt
    /\ IsOk(r) \/ faults < MaxFaults
    /\ faults' = IF IsOk(r) THEN faults ELSE faults + 1
    /\ cLast' = Event("relayReply", Mounted(f),
                      IF r.net THEN r.resp.statusCode ELSE 0, r.resp.body.val)
    /\ UNCHANGED <<cVariant, mode, epoch, input, conversationId, convRows, msgRows, nextId,
                   tokenCalls, posts, sendLog, switches, newChats>>
    /\ CASE cVariant = "realtime" ->
              \* the reply or the error text is inserted, not shown directly
              /\ flights' = [flights EXCEPT ![i].kind = "insertReply",
                                            ![i].row = IF IsOk(r) THEN ReplyMessage(r.resp)
                                                       ELSE ErrorMessage(cVariant, FailureText(cVariant, r))]
              /\ dbCalls' = dbCalls + 1
              /\ UNCHANGED <<messages, isLoading>>
         [] cVariant = "persisted" /\ IsOk(r) ->
              LET finalMessages == Append(f.hist, ReplyMessage(r.resp)) IN
              /\ flights' = [flights EXCEPT ![i].kind = "persist", ![i].hist = finalMessages]
              /\ dbCalls' = dbCalls + 1
              /\ messages' = IF Mounted(f) THEN finalMessages ELSE messages
              /\ UNCHANGED isLoading
         [] OTHER ->
              /\ flights' = Remove(flights, i)
              /\ dbCalls' = dbCalls
              /\ IF Mounted(f)
                 THEN /\ messages' = Appended(messages,
                              IF IsOk(r) THEN ReplyMessage(r.resp)
                              ELSE ErrorMessage(cVariant, FailureText(cVariant, r)))
                      /\ isLoading' = FALSE
                 ELSE UNCHANGED <<messages, isLoading>>

\* realtime: continuation after `await supabase.from('messages').insert(userMessage)`
InsertUserDone(i, ok) ==
    LET f == flights[i] IN
    /\ f.kind = "insertUser"
    /\ UNCHANGED outsideChat
    /\ UNCHANGED signedOutAt
    /\ ok \/ faults < MaxFaults
    /\ faults' = IF ok THEN faults ELSE faults + 1
    /\ cLast' = Event("insertUserDone", ok, 0, <<>>)
    /\ sendLog' = [sendLog EXCEPT ![f.send].gate = IF ok THEN "ok" ELSE "failed"]
    /\ UNCHANGED <<cVariant, mode, epoch, messages, input, conversationId, convRows, nextId,
                   tokenCalls, dbCalls, switches, newChats>>
    /\ IF ok
       THEN /\ msgRows' = InsertRow(f.mode, f.row)
            /\ posts' = Append(posts, PostBody(cVariant, f))
            /\ flights' = [flights EXCEPT ![i].kind = "post"] \o Notification(f.mode, f.row)
            /\ UNCHANGED isLoading
       ELSE /\ flights' = Remove(flights, i)
            /\ isLoading' = IF Mounted(f) THEN FALSE ELSE isLoading
            /\ UNCHANGED <<msgRows, posts>>

\* realtime: continuation after the insert of the assistant row
InsertReplyDone(i, ok) ==
    LET f == flights[i] IN
    /\ f.kind = "insertReply"
    /\ UNCHANGED outsideChat
    /\ UNCHANGED signedOutAt
    /\ ok \/ faults < MaxFaults
    /\ faults' = IF ok THEN faults ELSE faults + 1
    /\ cLast' = Event("insertReplyDone", ok, 0, <<>>)
    /\ UNCHANGED <<cVariant, mode, epoch, messages, input, conversationId, convRows, nextId,
                   tokenCalls, posts, dbCalls, sendLog, switches, newChats>>
    /\ msgRows' = IF ok THEN InsertRow(f.mode, f.row) ELSE msgRows
    /\ flights' = Remove(flights, i) \o (IF ok THEN Notification(f.mode, f.row) ELSE <<>>)
    /\ isLoading' = IF Mounted(f) THEN FALSE ELSE isLoading

\* realtime: the postgres_changes INSERT callback
Notify(i) ==
    LET f == flights[i] IN
    /\ f.kind = "notify"
    /\ UNCHANGED outsideChat
    /\ UNCHANGED signedOutAt
    /\ \A j \in 1..(i - 1) : flights[j].kind # "notify"   \* one channel, in order
    /\ UNCHANGED cLast
    /\ flights' = Remove(flights, i)
    /\ messages' = IF Mounted(f) THEN Appended(messages, f.row) ELSE messages
    /\ UNCHANGED <<cVariant, faults, mode, epoch, isLoading, input, conversationId, convRows, msgRows,
                   nextId, tokenCalls, posts, dbCalls, sendLog, switches, newChats>>

\* continuation after the select of loadConversation / fetchMessages
LoadDone(i, ok) ==
    LET f == flights[i]
        rest == Remove(flights, i)
    IN
    /\ f.kind = "load"
    /\ UNCHANGED outsideChat
    /\ UNCHANGED signedOutAt
    /\ ok \/ faults < MaxFaults
    /\ faults' = IF ok THEN faults ELSE faults + 1
    /\ cLast' = Event("loadDone", Mounted(f), IF ok THEN 200 ELSE 500, <<>>)
    /\ UNCHANGED <<cVariant, mode, epoch, input, convRows, msgRows, nextId, tokenCalls, posts,
                   sendLog, switches, newChats>>
    /\ IF ~Mounted(f)
       THEN \* the state updates are lost, the calls are made all the same
            LET deletes == cVariant = "persisted" /\ f.convId # 0
                             /\ ~(ok /\ RowsOf(convRows, f.mode) # <<>>)
            IN
            /\ flights' = IF deletes
                          THEN Append(rest, Flight("delete", f.epoch, f.mode, <<>>,
                                                   f.convId, 0, NoRow))
                          ELSE rest
            /\ dbCalls' = IF deletes THEN dbCalls + 1 ELSE dbCalls
            /\ UNCHANGED <<messages, isLoading, conversationId>>
       ELSE IF cVariant = "realtime"
       THEN /\ flights' = rest
            /\ messages' = IF ~ok THEN messages
                           ELSE IF msgRows[f.mode] = <<>> THEN << Welcome(f.mode) >>
                           ELSE msgRows[f.mode]
            /\ UNCHANGED <<isLoading, conversationId, dbCalls>>
       ELSE IF ok /\ RowsOf(convRows, f.mode) # <<>>
       THEN LET row == LatestOf(convRows, f.mode) IN
            /\ messages' = row.messages
            /\ conversationId' = row.id
            /\ flights' = rest \o Reload(row.id)
            /\ isLoading' = (Reload(row.id) # <<>>)
            /\ dbCalls' = dbCalls + Len(Reload(row.id))
       ELSE \* startNewConversation() of the render the effect ran in
            IF f.convId # 0
            THEN /\ flights' = Append(rest, Flight("delete", epoch, f.mode, <<>>, f.convId, 0, NoRow))
                 /\ dbCalls' = dbCalls + 1
                 /\ isLoading' = FALSE
                 /\ UNCHANGED <<messages, conversationId>>
            ELSE /\ messages' = << Welcome(f.mode) >>
                 /\ conversationId' = 0
                 /\ flights' = rest \o Reload(0)
                 /\ isLoading' = (Reload(0) # <<>>)
                 /\ dbCalls' = dbCalls + Len(Reload(0))

\* startNewConversation after `await supabase.from('conversations').delete()`
DeleteDone(i, ok) ==
    LET f == flights[i]
        rest == Remove(flights, i)
    IN
    /\ f.kind = "delete"
    /\ UNCHANGED outsideChat
    /\ UNCHANGED signedOutAt
    /\ ok \/ faults < MaxFaults
    /\ faults' = IF ok THEN faults ELSE faults + 1
    /\ cLast' = Event("deleteDone", ok, 0, <<>>)
    /\ convRows' = IF ok THEN SelectSeq(convRows, LAMBDA r : r.id # f.convId) ELSE convRows
    /\ UNCHANGED <<cVariant, mode, epoch, input, msgRows, nextId, tokenCalls, posts,
                   sendLog, switches, newChats>>
    /\ IF Mounted(f)
       THEN /\ messages' = << Welcome(f.mode) >>
            /\ conversationId' = 0
            /\ flights' = rest \o Reload(0)
            /\ isLoading' = IF Reload(0) # <<>> THEN TRUE ELSE isLoading
            /\ dbCalls' = dbCalls + Len(Reload(0))
       ELSE /\ flights' = rest
            /\ UNCHANGED <<messages, conversationId, isLoading, dbCalls>>

\* the New Chat button: chatRef.current.startNewConversation()
NewChat ==
    /\ UNCHANGED outsideChat
    /\ UNCHANGED signedOutAt
    /\ cVariant = "persisted"
    /\ ~Crashed
    /\ ~SignedOut
    /\ Clicks < MaxClicks
    /\ newChats' = newChats + 1
    /\ cLast' = Event("newChat", TRUE, 0, <<>>)
    /\ UNCHANGED <<cVariant, faults, mode, epoch, input, convRows, msgRows, nextId, tokenCalls, posts,
                   sendLog, switches, isLoading>>
    /\ IF conversationId # 0
       THEN /\ flights' = Append(flights,
                   Flight("delete", epoch, mode, <<>>, conversationId, 0, NoRow))
            /\ dbCalls' = dbCalls + 1
            /\ UNCHANGED <<messages, conversationId>>
       ELSE /\ messages' = << Welcome(mode) >>
            /\ UNCHANGED <<conversationId, flights, dbCalls>>

\* AuthenticatedApp.handleLogout, the Sign Out button of MainInterface
HandleLogout ==
    /\ UNCHANGED outsideChat
    /\ cVariant = "persisted"
    /\ ~Crashed
    /\ ~SignedOut
    /\ \A k \in 1..Len(flights) : flights[k].kind # "signOut"
    /\ Clicks < MaxClicks
    /\ flights' = Append(flights, Flight("signOut", epoch, mode, <<>>, 0, 0, NoRow))
    /\ cLast' = Event("handleLogout", TRUE, 0, <<>>)
    /\ UNCHANGED <<cVariant, mode, epoch, messages, isLoading, input, conversationId,
                   convRows, msgRows, nextId, tokenCalls, posts, dbCalls, sendLog,
                   switches, newChats, faults, signedOutAt>>

\* `await supabase.auth.signOut()` settles; on success onAuthStateChange
\* delivers a null session and App renders Auth
SignOutDone(i, ok) ==
    /\ UNCHANGED outsideChat
    /\ flights[i].kind = "signOut"
    /\ ok \/ faults < MaxFaults
    /\ faults' = IF ok THEN faults ELSE faults + 1
    /\ flights' = Remove(flights, i)
    /\ signedOutAt' = IF ok THEN dbCalls + Len(posts) ELSE signedOutAt
    /\ cLast' = Event("signOutDone", ok, 0, <<>>)
    /\ UNCHANGED <<cVariant, mode, epoch, messages, isLoading, input, conversationId,
                   convRows, msgRows, nextId, tokenCalls, posts, dbCalls, sendLog,
                   switches, newChats>>

\* handleSend after the update / insert of the conversation row.  No
\* reachable state has a request of this kind pending (a send is never
\* accepted in this revision, see Crashed), so ChatNext leaves it out.
PersistDone(i, ok) ==
    LET f == flights[i]
        rest == Remove(flights, i)
        created == ok /\ f.convId = 0
        cid == IF created /\ Mounted(f) THEN nextId ELSE conversationId
    IN
    /\ f.kind = "persist"
    /\ UNCHANGED outsideChat
    /\ UNCHANGED signedOutAt
    /\ ok \/ faults < MaxFaults
    /\ faults' = IF ok THEN faults ELSE faults + 1
    /\ cLast' = Event("persistDone", ok, 0, <<>>)
    /\ convRows' =
          IF ~ok THEN convRows
          ELSE IF f.convId = 0 THEN Append(convRows, ConvRow(nextId, f.mode, f.hist))
          ELSE [k \in 1..Len(convRows) |->
                   IF convRows[k].id = f.convId
                   THEN [convRows[k] EXCEPT !.messages = f.hist] ELSE convRows[k]]
    /\ nextId' = IF created THEN nextId + 1 ELSE nextId
    /\ UNCHANGED <<cVariant, mode, epoch, input, messages, msgRows, tokenCalls, posts,
                   sendLog, switches, newChats>>
    /\ IF Mounted(f)
       THEN /\ conversationId' = cid
            /\ flights' = rest \o Reload(cid)
            /\ isLoading' = (Reload(cid) # <<>>)
            /\ dbCalls' = dbCalls + Len(Reload(cid))
       ELSE /\ flights' = rest
            /\ UNCHANGED <<conversationId, isLoading, dbCalls>>

\* MainInterface.handleNavClick: a different mode remounts ChatInterface
HandleNavClick(m) ==
    /\ UNCHANGED outsideChat
    /\ UNCHANGED signedOutAt
    /\ ~Crashed
    /\ ~SignedOut
    /\ m # mode
    /\ Clicks < MaxClicks
    /\ switches' = switches + 1
    /\ mode' = m
    /\ epoch' = epoch + 1
    /\ messages' = MountMessages(cVariant, m)
    /\ isLoading' = MountLoading(cVariant)
    /\ input' = <<>>
    /\ conversationId' = 0
    \* the effect's cleanup removes the realtime channel of the old mode
    /\ flights' = SelectSeq(flights, LAMBDA f : f.kind # "notify")
                      \o MountFlights(cVariant, m, epoch + 1)
    /\ dbCalls' = dbCalls + Len(MountFlights(cVariant, m, epoch + 1))
    /\ cLast' = Event("navClick", TRUE, 0, <<>>)
    /\ UNCHANGED <<cVariant, faults, convRows, msgRows, nextId, tokenCalls, posts, sendLog, newChats>>

ChatNext ==
    \/ \E txt \in Inputs : TypeInput(txt)
    \/ HandleSend
    \/ \E m \in Modes : HandleNavClick(m)
    \/ NewChat
    \/ \E i \in 1..Len(flights), ok \in BOOLEAN : TokenDone(i, ok)
    \/ \E i \in 1..Len(flights), r \in RelayReplies : RelayReply(i, r)
    \/ \E i \in 1..Len(flights), ok \in BOOLEAN : InsertUserDone(i, ok)
    \/ \E i \in 1..Len(flights), ok \in BOOLEAN : InsertReplyDone(i, ok)
    \/ \E i \in 1..Len(flights) : Notify(i)
    \/ \E i \in 1..Len(flights), ok \in BOOLEAN : LoadDone(i, ok)
    \/ \E i \in 1..Len(flights), ok \in BOOLEAN : DeleteDone(i, ok)
    \/ HandleLogout
    \/ \E i \in 1..Len(flights), ok \in BOOLEAN : SignOutDone(i, ok)

\* no ChatInterface is rendered in this run
ChatIdle ==
    /\ cVariant = "stub"
    /\ mode = "mentor"
    /\ epoch = 0
    /\ messages = <<>>
    /\ isLoading = FALSE
    /\ input = <<>>
    /\ conversationId = 0
    /\ flights = <<>>
    /\ convRows = <<>>
    /\ msgRows = [m \in Modes |-> <<>>]
    /\ nextId = 2
    /\ tokenCalls = 0
    /\ posts = <<>>
    /\ dbCalls = 0
    /\ sendLog = <<>>
    /\ switches = 0
    /\ newChats = 0
    /\ faults = 0
    /\ cLast = Event("none", FALSE, 0, <<>>)
    /\ signedOutAt = -1

\* =====================================================================
\* PART 3 - sign-in and session bridging (App, Login, AuthenticatedApp)
\* =====================================================================
\* Revisions:
\*   "authStatus" src/App.jsx 42-125: host token exchanged inside App, redirect
\*   "nonceRef"   src/App.jsx 290-437: host SSO with a nonce, attempt flag a ref
\*   "nonceState" src/App.jsx 680-819: host SSO with a nonce, attempt flag state
\*   "popup"      unnamed/part_004: popup sign-in inside the host
\*   "login"      unnamed/part_003: Login button, host authenticate()
\*   "clerk"      unnamed/part_005: Clerk session, setSession
\*   "teams"      unnamed/part_002: host token, exchange inside App
AuthVariants == {"authStatus", "nonceRef", "nonceState", "popup", "login", "clerk", "teams"}
MsalVariants == {"authStatus", "nonceRef", "nonceState", "popup", "login"}
SsoVariants == {"nonceRef", "nonceState"}

\* message texts
InteractionRequiredText == "interaction_required"
ExchangeErrorText == "Unacceptable audience in id_token"
PopupErrorText == "user_cancelled"
NonceMissingText == "Nonce could not be retrieved from session storage."
LoginFailedText == "Login failed or was cancelled."
TeamsFailedText == "Failed to authenticate with Microsoft Teams. Please ensure this app is running inside Teams and you have consented to its permissions."

\* err.errorMessage || "Login failed or was cancelled."
PopupMessage(errorMessage) ==
    IF errorMessage # "" THEN errorMessage ELSE LoginFailedText

Op(kind, ep, origin) == [kind |-> kind, epoch |-> ep, origin |-> origin]

AuthEvent(op, ok, live, text) == [op |-> op, ok |-> ok, live |-> live, text |-> text]

\* the state of the components as one record
AuthState ==
    [variant |-> aVariant, isTeams |-> isTeams, inProgress |-> inProgress,
     account |-> account, authAttempted |-> authAttempted, nonce |-> nonce,
     authError |-> authError, mounted |-> aMounted, epoch |-> aEpoch,
     effAccount |-> effAccount, ready |-> isSupabaseReady,
     error |-> supabaseError, modeSelected |-> modeSelected,
     appMode |-> appMode, flights |-> aFlights,
     exchangeCalls |-> exchangeCalls, left |-> left,
     authStatus |-> authStatus]

\* App renders the "Authenticating..." loader instead of the templates
Loader(s) ==
    \/ /\ s.variant \in {"nonceRef", "nonceState", "popup"}
       /\ s.inProgress # "none"
    \/ /\ s.variant = "authStatus"
       /\ (s.authStatus \in {"initializing", "authenticating"} \/ s.inProgress # "none")

\* AuthenticatedApp is part of what App renders
ShouldMount(s) ==
    /\ ~s.left
    /\ s.variant # "teams"
    /\ (s.account # 0 \/ (s.variant = "authStatus" /\ s.authStatus = "success"))
    /\ ~Loader(s)
    /\ (s.variant = "popup" => s.authError = "")

\* the two buttons of ModeSelection and of the navigation bar
ModeChoices_ThirdButton == {"mentor", "coach", "advisor"}
ModeChoices == {"mentor", "coach"}

\* what an earlier page load of the tab left in sessionStorage
StoredModes == {""} \cup ModeChoices

\* useState(sessionStorage.getItem('appMode') || null)
InitialModeSelected(stored) == stored

\* the component is mounted with fresh state, or unmounted
Remount(s) ==
    IF ShouldMount(s) /\ ~s.mounted
    THEN [s EXCEPT !.mounted = TRUE, !.epoch = @ + 1, !.ready = FALSE,
                   !.error = "", !.effAccount = 0,
                   !.modeSelected = InitialModeSelected(s.appMode)]
    ELSE IF ~ShouldMount(s) /\ s.mounted
         THEN [s EXCEPT !.mounted = FALSE, !.ready = FALSE, !.error = "",
                        !.effAccount = 0, !.modeSelected = ""]
         ELSE s

\* AuthenticatedApp's effect: runs at mount and when the account changes
SessionEffect(s) ==
    IF s.variant # "authStatus" /\ s.mounted /\ s.effAccount # s.account
    THEN [s EXCEPT !.effAccount = s.account,
                   !.flights = Append(@, Op("acquire", s.epoch, "effect"))]
    ELSE s

\* App's sign-in effect
AppEffect(s) ==
    IF /\ s.variant \in SsoVariants
       /\ s.isTeams = "yes"
       /\ ~s.authAttempted
       /\ s.inProgress = "none"
       /\ (s.variant = "nonceRef" => s.account = 0)
    THEN [s EXCEPT !.authAttempted = TRUE, !.nonce = TRUE,
                   !.inProgress = "ssoSilent",
                   !.flights = Append(@, Op("sso", 0, "app"))]
    ELSE IF /\ s.variant = "popup"
            /\ ~s.authAttempted
            /\ s.account = 0
            /\ s.inProgress = "none"
         THEN [s EXCEPT !.authAttempted = TRUE,
                        !.flights = Append(@, Op("teamsInit", 0, "app"))]
         ELSE s

\* the render and the effects that follow a state change
Settle(s) == IF s.left THEN s ELSE SessionEffect(Remount(AppEffect(s)))

\* instance.loginPopup(): rejected at once while an interaction is in progress
StartPopup(s, origin) ==
    IF s.inProgress = "none"
    THEN [s EXCEPT !.inProgress = "login",
                   !.flights = Append(@, Op("popup", s.epoch, origin))]
    ELSE s

\* the continuation of flight f belongs to the component now rendered
Live(s, f) == s.variant \in {"teams", "authStatus"} \/ (s.mounted /\ f.epoch = s.epoch)

SetError(s, f, text) == IF Live(s, f) THEN [s EXCEPT !.error = text] ELSE s

\* what the user sees
View(name, button, text) == [name |-> name, button |-> button, text |-> text]

ScreenOf(s) ==
    IF s.left THEN View("left", FALSE, "")
    ELSE IF s.variant = "teams"
    THEN IF s.flights # <<>> THEN View("loader", FALSE, "")
         ELSE IF s.authError # "" THEN View("error", FALSE, s.authError)
         ELSE View("app", FALSE, "")
    ELSE IF Loader(s) THEN View("loader", FALSE, "")
    ELSE IF s.variant = "popup" /\ s.authError # ""
    THEN View("authError", TRUE, s.authError)
    ELSE IF s.variant = "authStatus"
    THEN IF s.mounted THEN View("app", FALSE, "") ELSE View("signIn", TRUE, "")
    ELSE IF s.mounted
    THEN IF s.variant # "clerk" /\ s.error # ""
         THEN View("sessionError", s.variant \in {"popup", "login"}, s.error)
         ELSE IF ~s.ready THEN View("preparing", FALSE, "")
         ELSE View("app", FALSE, "")
    ELSE IF s.variant \in SsoVariants
    THEN IF s.isTeams = "yes" THEN View("attempting", FALSE, "")
         ELSE View("signIn", TRUE, "")
    ELSE IF s.variant = "popup" THEN View("attempting", FALSE, "")
    ELSE View("login", TRUE, "")

Screen == ScreenOf(AuthState)

\* the state before the first continuation runs
AuthBase(v, acct) ==
    [variant |-> v, isTeams |-> "pending", inProgress |-> "none",
     account |-> acct, authAttempted |-> FALSE, nonce |-> FALSE,
     authError |-> "", mounted |-> FALSE, epoch |-> 0, effAccount |-> 0,
     ready |-> FALSE, error |-> "", modeSelected |-> "", appMode |-> "",
     authStatus |-> IF v = "authStatus" THEN "initializing" ELSE "none",
     flights |-> IF v \in {"authStatus", "nonceRef", "nonceState", "teams"}
                       \/ (v = "login" /\ acct = 0)
                 THEN <<Op("teamsInit", 0, "app")>> ELSE <<>>,
     exchangeCalls |-> 0, left |-> FALSE]

InitialAccounts(v) ==
    IF v = "clerk" THEN {1} ELSE IF v = "teams" THEN {0} ELSE {0, 1}

\* pending promises of one kind
CountOf(fl, kind) == Cardinality({k \in 1..Len(fl) : fl[k].kind = kind})

Holds(s) ==
    /\ aVariant = s.variant
    /\ isTeams = s.isTeams
    /\ inProgress = s.inProgress
    /\ account = s.account
    /\ authAttempted = s.authAttempted
    /\ nonce = s.nonce
    /\ authError = s.authError
    /\ aMounted = s.mounted
    /\ aEpoch = s.epoch
    /\ effAccount = s.effAccount
    /\ isSupabaseReady = s.ready
    /\ supabaseError = s.error
    /\ modeSelected = s.modeSelected
    /\ appMode = s.appMode
    /\ aFlights = s.flights
    /\ exchangeCalls = s.exchangeCalls
    /\ left = s.left
    /\ authStatus = s.authStatus

AuthInit ==
    /\ \E v \in AuthVariants : \E acct \in InitialAccounts(v) :
         \E stored \in StoredModes :
           Holds(Settle([AuthBase(v, acct) EXCEPT !.appMode = stored]))
    /\ exchangeFailed = FALSE
    /\ exchangeSucceeded = FALSE
    /\ nonceUses = 0
    /\ errorShown = FALSE
    /\ ssoCalls = 0
    /\ popupCalls = 0
    /\ retries = 0
    /\ aFaults = 0
    /\ acctChanges = 0
    /\ aLast = AuthEvent("none", TRUE, FALSE, "")

\* the state after a continuation: s is what the continuation assigned
Commit(s, ev) ==
    LET n == Settle(s) IN
    /\ aVariant' = n.variant
    /\ isTeams' = n.isTeams
    /\ inProgress' = n.inProgress
    /\ account' = n.account
    /\ authAttempted' = n.authAttempted
    /\ nonce' = n.nonce
    /\ authError' = n.authError
    /\ aMounted' = n.mounted
    /\ aEpoch' = n.epoch
    /\ effAccount' = n.effAccount
    /\ isSupabaseReady' = n.ready
    /\ supabaseError' = n.error
    /\ modeSelected' = n.modeSelected
    /\ appMode' = n.appMode
    /\ aFlights' = n.flights
    /\ exchangeCalls' = n.exchangeCalls
    /\ left' = n.left
    /\ authStatus' = n.authStatus
    /\ exchangeSucceeded' = (exchangeSucceeded \/ (ev.op = "exchange" /\ ev.ok))
    /\ nonceUses' =
          \* generateNoncePair() in performSso and in the catch block
          IF \/ CountOf(n.flights, "sso") > CountOf(aFlights, "sso")
             \/ (aVariant = "nonceState" /\ ev.op = "acquire" /\ ~ev.ok)
          THEN 0
          \* sessionStorage.getItem(...) returned it for signInWithIdToken
          ELSE IF aVariant \in SsoVariants /\ nonce /\ n.exchangeCalls > exchangeCalls
          THEN nonceUses + 1
          ELSE nonceUses
    /\ ssoCalls' = IF CountOf(n.flights, "sso") > CountOf(aFlights, "sso")
                   THEN ssoCalls + 1 ELSE ssoCalls
    /\ popupCalls' = IF CountOf(n.flights, "popup") > CountOf(aFlights, "popup")
                     THEN popupCalls + 1 ELSE popupCalls
    /\ retries' = IF exchangeFailed
                  THEN retries + (n.exchangeCalls - exchangeCalls)
                  ELSE retries
    /\ aFaults' = IF ev.ok THEN aFaults ELSE aFaults + 1
    /\ exchangeFailed' = (exchangeFailed \/ (ev.op = "exchange" /\ ~ev.ok))
    /\ errorShown' = (errorShown \/ (ev.op = "exchange" /\ ~ev.ok /\ ev.live))
    /\ aLast' = ev

Taken(i) == [AuthState EXCEPT !.flights = Remove(aFlights, i)]

MayFail(ok) == ok \/ aFaults < MaxAuthFaults

\* microsoftTeams app.initialize() settles
TeamsInitDone(i, ok) ==
    /\ UNCHANGED outsideAuth
    /\ ~left
    /\ aFlights[i].kind = "teamsInit"
    /\ MayFail(ok)
    /\ acctChanges' = acctChanges
    /\ \E notInTeams \in IF aVariant = "authStatus" /\ ~ok THEN BOOLEAN ELSE {FALSE} :
       LET s == Taken(i)
           r == CASE aVariant \in SsoVariants \cup {"login"} ->
                         [s EXCEPT !.isTeams = IF ok THEN "yes" ELSE "no"]
                  [] aVariant = "authStatus" ->
                         \* notInTeams: error.message includes "App is not
                         \* running in Microsoft Teams"
                         IF ok
                         THEN [s EXCEPT !.isTeams = "yes",
                                        !.authStatus = "authenticating",
                                        !.flights = Append(@, Op("acquire", 0, "app"))]
                         ELSE IF notInTeams
                         THEN [s EXCEPT !.authStatus = "failure", !.isTeams = "no",
                                        !.left = s.inProgress = "none" /\ s.account = 0]
                         ELSE [s EXCEPT !.authStatus = "failure"]
                  [] aVariant = "popup" ->
                         IF ok
                         THEN StartPopup([s EXCEPT !.isTeams = "yes"], "app")
                         ELSE [s EXCEPT !.isTeams = "no",
                                        !.flights = Append(@, Op("redirect", 0, "app"))]
                  [] OTHER ->
                         IF ok
                         THEN [s EXCEPT !.isTeams = "yes",
                                        !.flights = Append(@, Op("acquire", 0, "app"))]
                         ELSE [s EXCEPT !.isTeams = "no",
                                        !.authError = TeamsFailedText]
       IN Commit(r, AuthEvent("teamsInit", ok, TRUE, ""))

\* instance.ssoSilent() settles
SsoDone(i, ok) ==
    /\ UNCHANGED outsideAuth
    /\ ~left
    /\ aFlights[i].kind = "sso"
    /\ MayFail(ok)
    /\ acctChanges' = acctChanges
    /\ LET s == [Taken(i) EXCEPT !.inProgress = "none"]
           r == IF ok
                THEN [s EXCEPT !.account = IF @ = 0 THEN 1 ELSE @]
                ELSE StartPopup(s, "app")
       IN Commit(r, AuthEvent("sso", ok, TRUE, ""))

\* instance.loginPopup() settles
PopupDone(i, ok) ==
    /\ UNCHANGED outsideAuth
    /\ ~left
    /\ aFlights[i].kind = "popup"
    /\ MayFail(ok)
    /\ acctChanges' = acctChanges
    /\ LET f == aFlights[i]
           s == [Taken(i) EXCEPT !.inProgress = "none"]
           r == IF ok
                THEN [s EXCEPT !.account = IF @ = 0 THEN 1 ELSE @]
                ELSE IF f.origin = "app" /\ aVariant = "popup"
                     THEN [s EXCEPT !.authError = PopupMessage(PopupErrorText)]
                     ELSE IF f.origin = "catch" /\ aVariant = "popup"
                          THEN SetError(s, f, PopupErrorText)
                          ELSE s
       IN Commit(r, AuthEvent("popup", ok, Live(s, f), ""))

\* instance.handleRedirectPromise() settles (popup revision, outside the host)
RedirectDone(i, ok) ==
    /\ UNCHANGED outsideAuth
    /\ ~left
    /\ aFlights[i].kind = "redirect"
    /\ MayFail(ok)
    /\ acctChanges' = acctChanges
    /\ LET s == Taken(i)
           r == IF ok THEN s ELSE [s EXCEPT !.left = TRUE]
       IN Commit(r, AuthEvent("redirect", ok, TRUE, ""))

\* the token request settles: acquireTokenSilent, getToken, getAuthToken
AcquireDone(i, ok) ==
    /\ UNCHANGED outsideAuth
    /\ ~left
    /\ aFlights[i].kind = "acquire"
    /\ MayFail(ok)
    /\ acctChanges' = acctChanges
    /\ LET f == aFlights[i]
           s == Taken(i)
           Exchange(t) == [t EXCEPT !.exchangeCalls = @ + 1,
                                    !.flights = Append(@, Op("exchange", f.epoch, "effect"))]
           r == IF aVariant = "authStatus"
                THEN \* getAuthToken, then acquireTokenWithTeamsToken
                     IF ~ok THEN [s EXCEPT !.authStatus = "failure"]
                     ELSE IF f.origin = "app"
                     THEN [s EXCEPT !.flights = Append(@, Op("acquire", 0, "obo"))]
                     ELSE Exchange(s)
                ELSE IF ok
                THEN IF aVariant = "nonceState"
                     THEN IF s.nonce
                          THEN Exchange([s EXCEPT !.nonce = FALSE])
                          ELSE SetError(s, f, NonceMissingText)
                     ELSE Exchange(s)
                ELSE CASE aVariant = "nonceRef" ->
                              SetError(StartPopup(s, "catchSilent"), f,
                                       InteractionRequiredText)
                       [] aVariant = "nonceState" ->
                              SetError(StartPopup([s EXCEPT !.nonce = TRUE],
                                                  "catchSilent"),
                                       f, InteractionRequiredText)
                       [] aVariant = "popup" ->
                              SetError(StartPopup(s, "catch"), f,
                                       InteractionRequiredText)
                       [] aVariant = "login" -> [s EXCEPT !.left = TRUE]
                       [] aVariant = "clerk" -> s
                       [] OTHER -> [s EXCEPT !.authError = TeamsFailedText]
       IN Commit(r, AuthEvent("acquire", ok, Live(s, f),
                              IF ok THEN "" ELSE InteractionRequiredText))

\* the exchange settles: signInWithIdToken, setSession
ExchangeDone(i, ok) ==
    /\ UNCHANGED outsideAuth
    /\ ~left
    /\ aFlights[i].kind = "exchange"
    /\ MayFail(ok)
    /\ acctChanges' = acctChanges
    /\ LET f == aFlights[i]
           s == Taken(i)
           r == IF aVariant = "authStatus"
                THEN [s EXCEPT !.authStatus = IF ok THEN "success" ELSE "failure"]
                ELSE IF ok
                THEN LET t == IF ~Live(s, f) THEN s
                              ELSE IF aVariant = "teams"
                              THEN [s EXCEPT !.ready = TRUE,
                                             !.modeSelected = s.appMode]
                              ELSE [s EXCEPT !.ready = TRUE]
                     IN IF aVariant = "nonceRef" THEN [t EXCEPT !.nonce = FALSE]
                        ELSE t
                ELSE CASE aVariant = "clerk" -> s
                       [] aVariant = "teams" ->
                              [s EXCEPT !.authError = TeamsFailedText]
                       [] OTHER -> SetError(s, f, ExchangeErrorText)
       IN Commit(r, AuthEvent("exchange", ok, Live(s, f),
                              IF ok THEN "" ELSE ExchangeErrorText))

\* the account list of the MSAL instance changes
AccountsChanged ==
    /\ UNCHANGED outsideAuth
    /\ ~left
    /\ aVariant \in MsalVariants
    /\ account # 0
    /\ inProgress = "none"
    /\ acctChanges < MaxAccountChanges
    /\ acctChanges' = acctChanges + 1
    /\ Commit([AuthState EXCEPT
                  !.account = @ + 1,
                  \* App's effect of the first revision depends on `accounts`
                  !.flights = IF aVariant = "authStatus"
                              THEN Append(@, Op("teamsInit", 0, "app")) ELSE @],
              AuthEvent("accountsChanged", TRUE, TRUE, ""))

\* Login.handleLogin
HandleLogin ==
    /\ UNCHANGED outsideAuth
    /\ ~left
    /\ aVariant = "login"
    /\ Screen.name = "login"
    /\ isTeams = "yes"
    /\ \A k \in 1..Len(aFlights) : aFlights[k].kind # "authenticate"
    /\ acctChanges' = acctChanges
    /\ Commit([AuthState EXCEPT !.flights = Append(@, Op("authenticate", 0, "login"))],
              AuthEvent("handleLogin", TRUE, TRUE, ""))

\* teamsAuth.authenticate() settles
AuthenticateDone(i, ok) ==
    /\ UNCHANGED outsideAuth
    /\ ~left
    /\ aFlights[i].kind = "authenticate"
    /\ MayFail(ok)
    /\ acctChanges' = acctChanges
    /\ LET s == Taken(i)
           r == IF ok THEN [s EXCEPT !.left = TRUE] ELSE s
       IN Commit(r, AuthEvent("authenticate", ok, TRUE, ""))

\* handleModeSelect, called by a button of ModeSelection or, through
\* MainInterface.handleNavClick, by a button of the navigation bar
HandleModeSelect(m) ==
    /\ UNCHANGED outsideAuth
    /\ ~left
    /\ Screen.name = "app"
    /\ m # modeSelected
    /\ acctChanges' = acctChanges
    /\ Commit([AuthState EXCEPT !.modeSelected = m, !.appMode = m],
              AuthEvent("handleModeSelect", TRUE, TRUE, ""))

\* the user clicks Sign In, Retry or Sign Out and Start Over
Leave ==
    /\ UNCHANGED outsideAuth
    /\ ~left
    /\ Screen.button
    /\ Screen.name # "login"
    /\ acctChanges' = acctChanges
    /\ Commit([AuthState EXCEPT !.left = TRUE],
              AuthEvent("leave", TRUE, TRUE, ""))

AuthNext ==
    \/ \E i \in 1..Len(aFlights), ok \in BOOLEAN : TeamsInitDone(i, ok)
    \/ \E i \in 1..Len(aFlights), ok \in BOOLEAN : SsoDone(i, ok)
    \/ \E i \in 1..Len(aFlights), ok \in BOOLEAN : PopupDone(i, ok)
    \/ \E i \in 1..Len(aFlights), ok \in BOOLEAN : RedirectDone(i, ok)
    \/ \E i \in 1..Len(aFlights), ok \in BOOLEAN : AcquireDone(i, ok)
    \/ \E i \in 1..Len(aFlights), ok \in BOOLEAN : ExchangeDone(i, ok)
    \/ \E i \in 1..Len(aFlights), ok \in BOOLEAN : AuthenticateDone(i, ok)
    \/ AccountsChanged
    \/ HandleLogin
    \/ \E m \in ModeChoices : HandleModeSelect(m)
    \/ Leave

\* no sign-in component is rendered in this run
AuthIdle ==
    /\ Holds([AuthBase("teams", 0) EXCEPT !.flights = <<>>, !.left = TRUE])
    /\ exchangeFailed = FALSE
    /\ exchangeSucceeded = FALSE
    /\ nonceUses = 0
    /\ errorShown = FALSE
    /\ ssoCalls = 0
    /\ popupCalls = 0
    /\ retries = 0
    /\ aFaults = 0
    /\ acctChanges = 0
    /\ aLast = AuthEvent("none", TRUE, FALSE, "")

\* =====================================================================
\* Specifications
\* =====================================================================
vars == <<relayVars, chatVars, authVars>>

RelayOnlyInit == RelayInit /\ ChatIdle /\ AuthIdle
SpecRelay == RelayOnlyInit /\ [][RelayNext]_vars

ChatOnlyInit == ChatInit /\ RelayIdle /\ AuthIdle
SpecChat == ChatOnlyInit /\ [][ChatNext]_vars

AuthOnlyInit == AuthInit /\ RelayIdle /\ ChatIdle
SpecAuth == AuthOnlyInit /\ [][AuthNext]_vars

\* ---------------------------------------------------------------------
\* Claims about the ChatInterface component
\* ---------------------------------------------------------------------
\* what the user is shown, or is about to be shown, for the reply just
\* handled: the last message of the list or, in the realtime revision,
\* the row handed to the insert that the notification will deliver
ShownForReply ==
    IF cVariant = "realtime"
    THEN { flights[i].row : i \in { j \in 1..Len(flights) : flights[j].kind = "insertReply" } }
    ELSE IF messages = <<>> THEN {} ELSE { Last(messages) }

\* C1: when the relay POST of a send completes with status 400 or above,
\* the message shown next is an assistant message whose content contains the
\* text of the response body.
C1_ErrorBodyShown ==
    (cLast.op = "relayReply" /\ cLast.ok /\ cLast.status >= 400) =>
        \E m \in ShownForReply :
            m.role = "assistant" /\ ContainsText(m.content, cLast.text)

\* the input is empty or holds white space only
IsBlank(s) == \A i \in 1..Len(s) : s[i] \in Whitespace

\* C2: in every revision of ChatInterface, handleSend invoked while the
\* input is empty or white space starts no token acquisition, no POST to the
\* relay and no backend request.
C2_BlankSendNoCall ==
    [][ (HandleSend /\ IsBlank(input))
            => UNCHANGED <<tokenCalls, posts, dbCalls, flights>> ]_vars

\* Enter was pressed on an input of white space and handleSend returned
C2_Witness ==
    /\ cLast = Event("handleSend", FALSE, 0, <<>>)
    /\ input # <<>>
    /\ IsBlank(input)
    /\ cVariant \in TokenVariants

\* the stored conversation of the mode shown, or the welcome message
StoredOrWelcome ==
    CASE cVariant = "realtime" ->
            IF msgRows[mode] # <<>> THEN msgRows[mode] ELSE << Welcome(mode) >>
      [] cVariant = "persisted" ->
            IF RowsOf(convRows, mode) # <<>> THEN LatestOf(convRows, mode).messages
            ELSE << Welcome(mode) >>
      [] OTHER -> << Welcome(mode) >>

\* C4: after a mode switch, when the load started by the switch completes,
\* the visible list is the stored history of the new mode when one exists
\* and otherwise exactly the welcome message of that mode.
C4_SwitchShowsStoredOrWelcome ==
    [][ \A i \in 1..Len(flights), ok \in BOOLEAN :
            (LoadDone(i, ok) /\ Mounted(flights[i]) /\ switches > 0)
                => (messages' = StoredOrWelcome') ]_vars

\* the POSTs issued for the k-th accepted send
PostsOf(k) == SelectSeq(posts, LAMBDA p : p.send = k)

\* the k-th accepted send has got past the await that precedes its POST
Settled(k) == sendLog[k].gate # "pending"

\* C7 (as stated): each accepted send issues exactly one POST, whose history
\* is the conversation before the send followed by the new user message,
\* with the system prompt of the mode.
C7_ExactlyOnePost ==
    \A k \in 1..Len(sendLog) :
        Settled(k) =>
            /\ Len(PostsOf(k)) = 1
            /\ PostsOf(k)[1].history = Append(sendLog[k].before, sendLog[k].msg)
            /\ PostsOf(k)[1].systemPrompt = SystemPrompt(sendLog[k].mode)

\* C7 (amended): each accepted send issues at most one POST: exactly one
\* once the await before it (token acquisition, or the insert of the user
\* row in the realtime revision) has succeeded, none while it is pending or
\* when it failed.  The history is the conversation before the send followed
\* by the new user message (the last HistoryWindow of them in the realtime
\* revision), with the system prompt of the mode the send was made in.
C7_OnePostAfterGate ==
    \A k \in 1..Len(sendLog) :
        LET full == Append(sendLog[k].before, sendLog[k].msg) IN
        /\ Len(PostsOf(k)) = (IF sendLog[k].gate = "ok" THEN 1 ELSE 0)
        /\ \A j \in 1..Len(PostsOf(k)) :
              /\ PostsOf(k)[j].history =
                    (IF cVariant = "realtime" THEN SliceLast(full, HistoryWindow) ELSE full)
              /\ PostsOf(k)[j].systemPrompt = SystemPrompt(sendLog[k].mode)

\* a send was accepted in one mode and its POST went out after the user had
\* switched to the other mode
C7_Witness ==
    \E k \in 1..Len(sendLog) :
        /\ sendLog[k].gate = "ok"
        /\ Len(PostsOf(k)) = 1
        /\ sendLog[k].mode # mode

\* ---------------------------------------------------------------------
\* Claims about the relay handler
\* ---------------------------------------------------------------------
\* The request carries no acceptable bearer token
BadAuth(auth) == auth = NoAuth \/ auth.prefix # "Bearer " \/ auth.token # "valid"

\* C5: in the token-validating revisions a POST whose Authorization header
\* is missing, is not a Bearer header, or carries a token that fails
\* validation is answered with status 401 and makes no upstream call.
C5_BadTokenGets401 ==
    ( /\ hVariant \in ValidatingVariants
      /\ hEvent.httpMethod = "POST"
      /\ BadAuth(hEvent.auth)
      /\ hPc # "validating" )
    => (hResp.statusCode = 401 /\ hUpstream = 0)

IsJsonReply(body) == body.fmt = "json" /\ body.key \in {"response", "error"}

\* C6 (as stated): every response the handler returns, for every request
\* method and outcome, has a JSON body with a `response` or `error` field.
C6_EveryBodyIsJson == hResp # NoResp => IsJsonReply(hResp.body)

\* C6 (amended): every response to a POST has a JSON body with a `response`
\* or an `error` field; a request with any other method is answered 405
\* with the plain text 'Method Not Allowed'.
C6_PostBodyIsJson ==
    hResp # NoResp =>
        IF hEvent.httpMethod = "POST"
        THEN IsJsonReply(hResp.body)
        ELSE hResp = Response(405, TextBody(<<"Method Not Allowed">>))

\* a POST that reached the generation API and was answered with its failure
C6_Witness ==
    /\ hEvent.httpMethod = "POST"
    /\ hUpstream = 1
    /\ hResp.statusCode = 429
    /\ hResp.body.key = "error"

\* ---------------------------------------------------------------------
\* Claims about sign-in and session bridging
\* ---------------------------------------------------------------------
SignInOps == {"teamsInit", "sso", "popup", "redirect", "authenticate"}

\* C3: after a sign-in failure (host SDK initialization, silent sign-in,
\* popup, redirect handling) that leaves the user signed out, the screen
\* the application rests on - nothing of the sign-in still pending -
\* offers a sign-in or a retry button.
C3_FailureShowsControl ==
    (/\ aVariant \in {"popup", "nonceState", "login"}
     /\ account = 0
     /\ aLast.op \in SignInOps
     /\ ~aLast.ok
     /\ aFlights = <<>>
     /\ ~left)
    => Screen.button

\* C8: when the session exchange fails for the rendered component, the
\* screen shows the message of that error, unchanged.
C8_ExchangeErrorShown ==
    (/\ aVariant \in {"nonceState", "clerk", "teams"}
     /\ aLast.op = "exchange"
     /\ ~aLast.ok
     /\ aLast.live
     /\ ~left)
    => Screen.text = aLast.text

\* C9: once a failed exchange has put up the error screen, the application
\* never shows the mode selection or the chat for the rest of the page load.
C9_FailureIsTerminal ==
    (aVariant \in {"nonceRef", "popup"} /\ errorShown /\ ~left)
    => Screen.name # "app"

\* C10: after an exchange call has failed, no further exchange call is
\* issued within the page load.
C10_NoSecondExchange ==
    aVariant \in {"nonceState", "popup"} => retries = 0

\* C11: in the host-SSO revision, after the popup that followed a failed
\* silent acquisition fails too and the user is still signed out, a
\* full-page redirect is attempted.
C11_PopupFailureRedirects ==
    (aVariant = "nonceState" /\ account = 0 /\ aLast.op = "popup" /\ ~aLast.ok)
    => left

\* a step of a silent acquisition (ssoSilent, acquireTokenSilent) failing
SilentFailure == aLast'.op \in {"sso", "acquire"} /\ ~aLast'.ok

\* C12: within a page load at most one silent sign-in is attempted, and a
\* popup is opened only in the step in which a silent acquisition fails,
\* one popup per failure.
C12_SingleAttempts ==
    /\ [](aVariant \in {"nonceRef", "nonceState", "popup"} => ssoCalls <= 1)
    /\ [][ (/\ aVariant \in {"nonceRef", "nonceState", "popup"}
            /\ popupCalls' # popupCalls)
           => (SilentFailure /\ popupCalls' = popupCalls + 1) ]_vars

\* C13: when host detection, token acquisition or the session exchange has
\* failed and nothing is pending any more, the screen is an error screen
\* that carries an error text.
C13_FailureIsRendered ==
    (/\ aVariant \in {"clerk", "login"}
     /\ aLast.op \in {"teamsInit", "acquire", "exchange"}
     /\ ~aLast.ok
     /\ aFlights = <<>>
     /\ ~left)
    => (Screen.name \in {"sessionError", "authError", "error"} /\ Screen.text # "")

IsPrefix(a, b) == Len(a) <= Len(b) /\ SubSeq(b, 1, Len(a)) = a

\* a step of a turn: the send, or a continuation or notification that
\* delivers the user's message, the reply or an error message
TurnStep ==
    \/ HandleSend
    \/ \E i \in 1..Len(flights), ok \in BOOLEAN : TokenDone(i, ok)
    \/ \E i \in 1..Len(flights), r \in RelayReplies : RelayReply(i, r)
    \/ \E i \in 1..Len(flights), ok \in BOOLEAN : InsertUserDone(i, ok)
    \/ \E i \in 1..Len(flights), ok \in BOOLEAN : InsertReplyDone(i, ok)
    \/ \E i \in 1..Len(flights) : Notify(i)

ChatRoles == {"user", "assistant"}

\* C16: every message of the visible conversation and of every history
\* sent to the relay has role 'user' or 'assistant'.
C16_RolesAreTwo ==
    /\ \A i \in 1..Len(messages) : messages[i].role \in ChatRoles
    /\ \A k \in 1..Len(posts) :
           \A i \in 1..Len(posts[k].history) : posts[k].history[i].role \in ChatRoles

\* the stored rows were loaded, a change notification was appended to them,
\* a reply was delivered and a history was sent
C16_Witness ==
    /\ cVariant = "realtime"
    /\ Len(messages) > StoredLen + 1
    /\ SubSeq(messages, 1, StoredLen) = StoredHistory("coach")
    /\ Last(messages) = ReplyMessage(UpstreamResponse("supabase",
                            [kind |-> "ok", status |-> 200, text |-> "reply"]))
    /\ posts # <<>>

\* ---------------------------------------------------------------------
\* Claims about the mode
\* ---------------------------------------------------------------------
TwoModes == {"mentor", "coach"}

C18_NoRequestAfterSignOut == SignedOut => dbCalls + Len(posts) = signedOutAt

\* ---------------------------------------------------------------------
\* C19: the value of the generation API key never appears in a response
\* body the relay handler returns (success, upstream-error passthrough
\* or exception message).
\* ---------------------------------------------------------------------
C19_KeyStaysServerSide == ~Contains(hResp.body.val, ApiKey)

\* ---------------------------------------------------------------------
\* C20: the relay handler calls the generation API only for a POST whose
\* body was parsed, with the key configured and, in the validating
\* revisions, after the bearer token was validated; a request that is
\* not a POST and a request that arrives while the key is missing end
\* without an upstream call.
\* ---------------------------------------------------------------------
C20_UpstreamOnlyWhenAllowed ==
    /\ (hUpstream > 0 \/ hPc = "fetching") =>
          /\ hEvent.httpMethod = "POST"
          /\ hEvent.body.fmt = "json"
          /\ hEnv.apiKey
          /\ (hVariant \in ValidatingVariants =>
                /\ hEvent.auth.prefix = "Bearer "
                /\ hEvent.auth.token = "valid"
                /\ hEnv.authEnv)
    /\ (hPc = "done" /\ (hEvent.httpMethod # "POST" \/ ~hEnv.apiKey)) =>
          (hUpstream = 0 /\ hPayload = NoPayload /\ hResp # NoResp)

\* a validated request is being relayed
C20_Witness ==
    /\ hPc = "fetching"
    /\ hUpstream = 1
    /\ hVariant \in ValidatingVariants
    /\ hPayload.contents # <<>>

\* ---------------------------------------------------------------------
\* C21: the relay handler answers every event: it never leaves a request
\* without a response, and a request that ended with an exception is
\* answered 500 (401 when the token check threw) with the exception's
\* message in the `error` field.
\* ---------------------------------------------------------------------
C21_EveryEventAnswered ==
    /\ hPc # "lost"
    /\ hPc = "done" =>
          /\ hResp.statusCode \in {200, 401, 405, 429, 500}
          /\ (hResp.statusCode \in {401, 500} =>
                (hResp.body.fmt = "json" /\ hResp.body.key = "error" /\ hResp.body.val # <<>>))

\* ---------------------------------------------------------------------
\* C22: the contents list of the upstream payload has the length and the
\* order of the request's history; an entry's role is 'model' exactly
\* when the history message's role is 'assistant' and 'user' otherwise,
\* and its text is the message's content.
\* ---------------------------------------------------------------------
C22_ContentsMirrorHistory ==
    hUpstream > 0 =>
        /\ Len(hPayload.contents) = Len(hEvent.body.history)
        /\ \A i \in 1..Len(hPayload.contents) :
              /\ hPayload.contents[i].role \in {"model", "user"}
              /\ hPayload.contents[i].role = "model" <=> hEvent.body.history[i].role = "assistant"
              /\ hPayload.contents[i].text = hEvent.body.history[i].content

\* a history with an assistant message and a message that is neither the
\* user's nor the assistant's is on its way upstream
C22_Witness ==
    /\ hPc = "fetching"
    /\ Len(hPayload.contents) = 2
    /\ \E i \in 1..2 : hEvent.body.history[i].role = "assistant"
    /\ \E i \in 1..2 : hEvent.body.history[i].role = "system"

\* ---------------------------------------------------------------------
\* C23: for one chat interface at most one relay request is outstanding
\* at any time, and a send attempted while isLoading is true issues no
\* request and appends no message.
\* ---------------------------------------------------------------------
\* the sends of the mounted chat interface that still await their reply
Outstanding ==
    { i \in 1..Len(flights) :
        flights[i].epoch = epoch /\ flights[i].kind \in {"token", "insertUser", "post"} }

C23_OneRequestAtATime ==
    /\ [](Cardinality(Outstanding) <= 1)
    /\ [][ (isLoading /\ HandleSend)
           => (posts' = posts /\ messages' = messages /\ flights' = flights
               /\ tokenCalls' = tokenCalls /\ dbCalls' = dbCalls) ]_vars

\* handleSend was called while a send was awaiting its reply
C23_Witness ==
    /\ isLoading
    /\ Cardinality(Outstanding) = 1
    /\ cLast.op = "handleSend"
    /\ ~cLast.ok
    /\ Len(sendLog) = 1

\* ---------------------------------------------------------------------
\* C24: the chat interface is rendered only after the backend session
\* exchange has succeeded in this page load; no path reaches it when the
\* exchange failed or never ran.
\* ---------------------------------------------------------------------
C24_AppOnlyAfterExchange == Screen.name = "app" => exchangeSucceeded

\* ---------------------------------------------------------------------
\* C25: the session-bridging state is in exactly one of preparing, ready
\* and error: isSupabaseReady and supabaseError are never both set,
\* however often and in whatever order the runs of the exchange effect
\* finish.
\* ---------------------------------------------------------------------
C25_ReadyExcludesError ==
    aVariant \in {"nonceState", "popup"} => ~(isSupabaseReady /\ supabaseError # "")

\* ---------------------------------------------------------------------
\* C26: where messages are stored in the `messages` table and delivered
\* by realtime insert notifications, every sent user message and every
\* assistant reply appears exactly once in the visible conversation,
\* whatever the order in which the state updates and the notifications
\* arrive.
\* ---------------------------------------------------------------------
\* how many entries of a list have the given role
CountRole(seq, r) == Cardinality({k \in 1..Len(seq) : seq[k].role = r})

\* a flight of the mounted component of the given kind is pending
Pending(kind) ==
    \E k \in 1..Len(flights) : flights[k].kind = kind /\ flights[k].epoch = epoch

C26_EachMessageOnce ==
    cVariant = "realtime" =>
        \* no stored user message is shown twice
        /\ CountRole(messages, "user") <= CountRole(msgRows[mode], "user")
        \* once everything has arrived, every sent message is shown
        /\ (flights = <<>> /\ cLast.op # "mount") =>
              \A k \in 1..Len(sendLog) :
                 (sendLog[k].mode = mode /\ sendLog[k].gate = "ok")
                 => \E j \in 1..Len(messages) : messages[j] = sendLog[k].msg

\* ---------------------------------------------------------------------
\* C27: after New Chat (startNewConversation) the visible conversation is
\* the single welcome message and stays free of the messages of the
\* discarded conversation until the user sends again, also when a reply
\* to an earlier send arrives afterwards.
\* ---------------------------------------------------------------------
C27_NewChatShowsWelcome ==
    ( /\ cVariant = "persisted"
      /\ newChats > 0
      /\ switches = 0
      /\ sendLog = <<>>
      /\ ~Crashed
      /\ ~SignedOut
      /\ flights = <<>> )
    => messages = << Welcome(mode) >>

\* ---------------------------------------------------------------------
\* C28: in the revisions that sign in with a nonce, a generated raw nonce
\* is passed to at most one exchange call; no later run of the exchange
\* effect passes the same nonce again.
\* ---------------------------------------------------------------------
C28_NonceUsedOnce == aVariant \in SsoVariants => nonceUses <= 1

====
